---- MODULE Spec2Model ----
\* Model of src/homework.py: a poller that fetches homework review statuses,
\* notifies a Telegram bot, keeps an in-memory checkpoint and forwards
\* error-severity log records to the bot through a logging filter.
EXTENDS Integers, Sequences, FiniteSets, TLC

\* ------------------------------------------------------------------ bounds
\* Deepest chain of nested send_message calls the interpreter allows before
\* it raises RecursionError (stands for sys.getrecursionlimit()).
MaxNest == 2
\* Number of bot deliveries that fail in one run.
MaxFailures == 2
\* Number of sleeps the model follows.
MaxCycles == 2
\* Largest number of seconds a fetch takes.
MaxLatency == 1
\* Longest `homeworks` list of the replies a single cycle is run against.
MaxHomeworks == 2
\* Number of status changes the server holds that no fetch returned yet.
MaxChanges == 1

\* --------------------------------------------------------------- constants
RETRY_PERIOD == 600
LOG_ERROR == 40
LOG_CRITICAL == 50
HTTP_OK == 200

\* Text literals of src/homework.py. Non-ASCII characters are written as
\* their \uXXXX code points (the six characters backslash, u, four hex digits),
\* so two texts are equal here exactly when they are equal in the program.

\* line 24: "Работа проверена: ревьюеру всё понравилось. Ура!"
\* line 25: "Работа взята на проверку ревьюером."
\* line 26: "Работа проверена: у ревьюера есть замечания."
\* HOMEWORK_VERDICTS with the texts of two statuses exchanged.
HOMEWORK_VERDICTS_exchanged ==
    [approved  |-> "\\u0420\\u0430\\u0431\\u043e\\u0442\\u0430 \\u043f\\u0440\\u043e\\u0432\\u0435\\u0440\\u0435\\u043d\\u0430: \\u0440\\u0435\\u0432\\u044c\\u044e\\u0435\\u0440\\u0443 \\u0432\\u0441\\u0451 \\u043f\\u043e\\u043d\\u0440\\u0430\\u0432\\u0438\\u043b\\u043e\\u0441\\u044c. \\u0423\\u0440\\u0430!",
     reviewing |-> "\\u0420\\u0430\\u0431\\u043e\\u0442\\u0430 \\u043f\\u0440\\u043e\\u0432\\u0435\\u0440\\u0435\\u043d\\u0430: \\u0443 \\u0440\\u0435\\u0432\\u044c\\u044e\\u0435\\u0440\\u0430 \\u0435\\u0441\\u0442\\u044c \\u0437\\u0430\\u043c\\u0435\\u0447\\u0430\\u043d\\u0438\\u044f.",
     rejected  |-> "\\u0420\\u0430\\u0431\\u043e\\u0442\\u0430 \\u0432\\u0437\\u044f\\u0442\\u0430 \\u043d\\u0430 \\u043f\\u0440\\u043e\\u0432\\u0435\\u0440\\u043a\\u0443 \\u0440\\u0435\\u0432\\u044c\\u044e\\u0435\\u0440\\u043e\\u043c."]

HOMEWORK_VERDICTS ==
    [approved  |-> "\\u0420\\u0430\\u0431\\u043e\\u0442\\u0430 \\u043f\\u0440\\u043e\\u0432\\u0435\\u0440\\u0435\\u043d\\u0430: \\u0440\\u0435\\u0432\\u044c\\u044e\\u0435\\u0440\\u0443 \\u0432\\u0441\\u0451 \\u043f\\u043e\\u043d\\u0440\\u0430\\u0432\\u0438\\u043b\\u043e\\u0441\\u044c. \\u0423\\u0440\\u0430!",
     reviewing |-> "\\u0420\\u0430\\u0431\\u043e\\u0442\\u0430 \\u0432\\u0437\\u044f\\u0442\\u0430 \\u043d\\u0430 \\u043f\\u0440\\u043e\\u0432\\u0435\\u0440\\u043a\\u0443 \\u0440\\u0435\\u0432\\u044c\\u044e\\u0435\\u0440\\u043e\\u043c.",
     rejected  |-> "\\u0420\\u0430\\u0431\\u043e\\u0442\\u0430 \\u043f\\u0440\\u043e\\u0432\\u0435\\u0440\\u0435\\u043d\\u0430: \\u0443 \\u0440\\u0435\\u0432\\u044c\\u044e\\u0435\\u0440\\u0430 \\u0435\\u0441\\u0442\\u044c \\u0437\\u0430\\u043c\\u0435\\u0447\\u0430\\u043d\\u0438\\u044f."]

\* line 64: f"Бот не смог отправить сообщение {message}"
DeliveryFailureText(message) ==
    "\\u0411\\u043e\\u0442 \\u043d\\u0435 \\u0441\\u043c\\u043e\\u0433 \\u043e\\u0442\\u043f\\u0440\\u0430\\u0432\\u0438\\u0442\\u044c \\u0441\\u043e\\u043e\\u0431\\u0449\\u0435\\u043d\\u0438\\u0435 " \o message

\* line 81: "Ошибка при запросе к практикуму."
TransportErrorText == "\\u041e\\u0448\\u0438\\u0431\\u043a\\u0430 \\u043f\\u0440\\u0438 \\u0437\\u0430\\u043f\\u0440\\u043e\\u0441\\u0435 \\u043a \\u043f\\u0440\\u0430\\u043a\\u0442\\u0438\\u043a\\u0443\\u043c\\u0443."

\* line 85: "Ошибка при запросе к практикуму"
OtherFetchErrorText == "\\u041e\\u0448\\u0438\\u0431\\u043a\\u0430 \\u043f\\u0440\\u0438 \\u0437\\u0430\\u043f\\u0440\\u043e\\u0441\\u0435 \\u043a \\u043f\\u0440\\u0430\\u043a\\u0442\\u0438\\u043a\\u0443\\u043c\\u0443"

\* lines 89-94: f"Эндпоинт практикума не доступен, код запроса: {status_code},
\*               заголовки: {headers}, тело ответа: {text}"
EndpointUnavailableText(status_code, headers, text) ==
    "\\u042d\\u043d\\u0434\\u043f\\u043e\\u0438\\u043d\\u0442 \\u043f\\u0440\\u0430\\u043a\\u0442\\u0438\\u043a\\u0443\\u043c\\u0430 \\u043d\\u0435 \\u0434\\u043e\\u0441\\u0442\\u0443\\u043f\\u0435\\u043d, "
    \o "\\u043a\\u043e\\u0434 \\u0437\\u0430\\u043f\\u0440\\u043e\\u0441\\u0430: " \o ToString(status_code) \o ", "
    \o "\\u0437\\u0430\\u0433\\u043e\\u043b\\u043e\\u0432\\u043a\\u0438: " \o headers \o ", "
    \o "\\u0442\\u0435\\u043b\\u043e \\u043e\\u0442\\u0432\\u0435\\u0442\\u0430: " \o text

\* line 112: "Ошибра авторизации."
NotAuthenticatedText == "\\u041e\\u0448\\u0438\\u0431\\u0440\\u0430 \\u0430\\u0432\\u0442\\u043e\\u0440\\u0438\\u0437\\u0430\\u0446\\u0438\\u0438."

\* line 114: "Неизвестная ошибка."
UnknownErrorText == "\\u041d\\u0435\\u0438\\u0437\\u0432\\u0435\\u0441\\u0442\\u043d\\u0430\\u044f \\u043e\\u0448\\u0438\\u0431\\u043a\\u0430."

\* line 132: f'Изменился статус проверки работы "{homework_name}". {verdict}'
StatusChangedText(homework_name, verdict) ==
    "\\u0418\\u0437\\u043c\\u0435\\u043d\\u0438\\u043b\\u0441\\u044f \\u0441\\u0442\\u0430\\u0442\\u0443\\u0441 \\u043f\\u0440\\u043e\\u0432\\u0435\\u0440\\u043a\\u0438 \\u0440\\u0430\\u0431\\u043e\\u0442\\u044b \"" \o homework_name \o "\". " \o verdict

\* line 158: f"Сбой в работе программы: {str(error)}"
CycleFailureText(error_str) ==
    "\\u0421\\u0431\\u043e\\u0439 \\u0432 \\u0440\\u0430\\u0431\\u043e\\u0442\\u0435 \\u043f\\u0440\\u043e\\u0433\\u0440\\u0430\\u043c\\u043c\\u044b: " \o error_str

\* lines 139-140: "Не объявлены необходимые переменные окружения. "
\*                "Программа принудительно остановлена."
MissingConfigurationText ==
    "\\u041d\\u0435 \\u043e\\u0431\\u044a\\u044f\\u0432\\u043b\\u0435\\u043d\\u044b \\u043d\\u0435\\u043e\\u0431\\u0445\\u043e\\u0434\\u0438\\u043c\\u044b\\u0435 \\u043f\\u0435\\u0440\\u0435\\u043c\\u0435\\u043d\\u043d\\u044b\\u0435 \\u043e\\u043a\\u0440\\u0443\\u0436\\u0435\\u043d\\u0438\\u044f. "
    \o "\\u041f\\u0440\\u043e\\u0433\\u0440\\u0430\\u043c\\u043c\\u0430 \\u043f\\u0440\\u0438\\u043d\\u0443\\u0434\\u0438\\u0442\\u0435\\u043b\\u044c\\u043d\\u043e \\u043e\\u0441\\u0442\\u0430\\u043d\\u043e\\u0432\\u043b\\u0435\\u043d\\u0430."

\* Texts of RecursionError.  Which one CPython raises depends on the frame
\* at which the limit is hit (a call, a call of a C function, a comparison),
\* which the depth of the bot's own calls shifts; it is a choice among these.
RecursionErrorTexts ==
    {"maximum recursion depth exceeded",
     "maximum recursion depth exceeded while calling a Python object",
     "maximum recursion depth exceeded in comparison"}

\* text of the JSON decoder's error on a body that is not JSON
JsonErrorText == "Expecting value: line 1 column 1 (char 0)"

\* ------------------------------------------------------------------ inputs
env_list == {"PRACTICUM_TOKEN", "TELEGRAM_TOKEN", "TELEGRAM_CHAT_ID"}

\* An environment maps the variables that are set to their values; a variable
\* outside the domain is unset (os.getenv gives None).
Environments == UNION {[ks -> {"", "secret"}] : ks \in SUBSET env_list}

\* A homework record is a mapping over a subset of its two keys.
MkHomework(keys, status, name) ==
    [k \in keys |-> IF k = "status" THEN status ELSE name]

Homework(status, name) == MkHomework({"status", "homework_name"}, status, name)

\* A parsed JSON body.  type is the Python type of the top-level value; for a
\* dict, keys are the keys present, homeworks_type the Python type of
\* response["homeworks"] ("NoneType" when the key is missing), homeworks its
\* items when it is a list, code the value of response["code"].
MkResponse(type, keys, homeworks_type, homeworks, code) ==
    [type |-> type, keys |-> keys, homeworks_type |-> homeworks_type,
     homeworks |-> homeworks, code |-> code]

NoResponse == MkResponse("NoneType", {}, "NoneType", <<>>, "")

\* {"homeworks": hs}
HomeworksResponse(hs) == MkResponse("dict", {"homeworks"}, "list", hs, "")

\* The replies the poller is run against.
Responses ==
    {MkResponse("list", {}, "NoneType", <<>>, ""),
     MkResponse("dict", {}, "NoneType", <<>>, ""),
     MkResponse("dict", {"code"}, "NoneType", <<>>, "not_authenticated"),
     MkResponse("dict", {"homeworks"}, "str", <<>>, ""),
     MkResponse("dict", {"homeworks", "code"}, "list", <<>>, "UnknownError"),
     HomeworksResponse(<<>>),
     HomeworksResponse(<<Homework("approved", "hw1")>>),
     HomeworksResponse(<<Homework("reviewing", "hw1"), Homework("rejected", "hw2")>>),
     HomeworksResponse(<<Homework("approved", "hw1"), Homework("unknown", "hw2")>>),
     HomeworksResponse(<<MkHomework({"homework_name"}, "", "hw1")>>)}

\* Every reply over the keys, statuses and names below, for the runs of a
\* single cycle.
Statuses == (DOMAIN HOMEWORK_VERDICTS) \cup {"unknown"}
Names == {"hw1", "hw2"}
Codes == {"not_authenticated", "UnknownError", "other"}

HomeworkRecords ==
    {MkHomework(keys, s, n) :
        keys \in SUBSET {"status", "homework_name"}, s \in Statuses, n \in Names}

HomeworkLists == UNION {[1..n -> HomeworkRecords] : n \in 0..MaxHomeworks}

AllResponses ==
    {MkResponse("list", {}, "NoneType", <<>>, ""),
     MkResponse("dict", {}, "NoneType", <<>>, ""),
     MkResponse("dict", {"homeworks"}, "str", <<>>, "")}
    \cup {MkResponse("dict", {"code"}, "NoneType", <<>>, c) : c \in Codes}
    \cup {MkResponse("dict", {"homeworks", "code"}, "str", <<>>, c) : c \in Codes}
    \cup {HomeworksResponse(hs) : hs \in HomeworkLists}
    \cup {MkResponse("dict", {"homeworks", "code"}, "list", hs, c) :
            hs \in {l \in HomeworkLists : Len(l) <= 1}, c \in Codes}

\* What requests.get does: raise, or answer with a status code and a body.
MkOutcome(kind, status_code, json_ok, body) ==
    [kind |-> kind, status_code |-> status_code, json_ok |-> json_ok, body |-> body]

NoOutcome == MkOutcome("none", 0, FALSE, NoResponse)

FetchOutcomes ==
    {MkOutcome("RequestException", 0, FALSE, NoResponse),
     MkOutcome("Exception", 0, FALSE, NoResponse),
     MkOutcome("reply", HTTP_OK, FALSE, NoResponse)}
    \cup {MkOutcome("reply", sc, FALSE, NoResponse) : sc \in {404, 500}}
    \cup {MkOutcome("reply", HTTP_OK, TRUE, r) : r \in Responses}

\* headers and text of a reply whose status is not 200, as they are printed
ReplyHeaders == "{}"
ReplyText == ""

\* -------------------------------------------------------------- exceptions
MkError(type, str) == [type |-> type, str |-> str]
NoError == MkError("none", "")

\* ------------------------------------------------------------------- state
VARIABLES
    env,                    \* process environment
    pc,                     \* position of main
    now,                    \* int(time.time())
    last_successful_check,  \* main: the checkpoint
    last_message,           \* TelegramFilter.last_message
    outcome,                \* what requests.get did in this cycle
    idx,                    \* position of the for loop in homeworks
    stack,                  \* send_message calls in progress, outermost first
    error,                  \* exception being handled by main
    attempts,               \* bot.send_message calls of this cycle
    errlog,                 \* error and critical records logged in this cycle
    cycle_start_check,      \* the checkpoint when this cycle fetched
    cycle_result,           \* how this cycle ended
    fetched,                \* requests.get was called in this run
    slept,                  \* time.sleep was called since the last fetch
    failures,               \* bot deliveries that failed in this run
    cycles,                 \* sleeps so far
    prev_failure,           \* the previous cycle's failure, if it failed
    prev_err_sent,          \* error texts the filter sent in the previous cycle
    last_err_attempt,       \* text the filter sent most recently
    prev_main_sent,         \* texts main sent in the previous cycle, if it failed
    unseen                  \* stamps of the status changes no fetch returned yet

vars == <<env, pc, now, last_successful_check, last_message, outcome, idx,
          stack, error, attempts, errlog, cycle_start_check, cycle_result,
          fetched, slept, failures, cycles, prev_failure, prev_err_sent, last_err_attempt,
          prev_main_sent, unseen>>


NoFailure == [outcome |-> NoOutcome, error |-> NoError]

\* ------------------------------------------------------------ pure functions
\* check_tokens with any() in place of all().
check_tokens_any(e) == \E x \in env_list : x \in DOMAIN e /\ e[x] # ""

\* check_tokens: every required variable is set and not empty.
check_tokens(e) == \A x \in env_list : x \in DOMAIN e /\ e[x] # ""

\* The condition of TelegramFilter.filter under which it calls send_message.
filter_sends(levelno, msg, last) == levelno = LOG_ERROR /\ last # msg

\* check_response with an empty list of homeworks treated as an error.
check_response_empty_raises(response) ==
    IF response.type # "dict" THEN MkError("TypeError", "")
    ELSE IF response.homeworks_type # "list" THEN MkError("TypeError", "")
    ELSE IF "code" \in response.keys /\ response.code = "not_authenticated"
         THEN MkError("PracticumRequestError", NotAuthenticatedText)
    ELSE IF "code" \in response.keys /\ response.code = "UnknownError"
         THEN MkError("PracticumRequestError", UnknownErrorText)
    ELSE IF Len(response.homeworks) = 0 THEN MkError("TypeError", "")
    ELSE NoError

\* check_response without the isinstance check of line 108.
check_response_no_list_check(response) ==
    IF response.type # "dict" THEN MkError("TypeError", "")
    ELSE IF "code" \in response.keys /\ response.code = "not_authenticated"
         THEN MkError("PracticumRequestError", NotAuthenticatedText)
    ELSE IF "code" \in response.keys /\ response.code = "UnknownError"
         THEN MkError("PracticumRequestError", UnknownErrorText)
    ELSE NoError

\* check_response: the exception it raises, NoError when it returns.
check_response(response) ==
    IF response.type # "dict" THEN MkError("TypeError", "")
    ELSE IF response.homeworks_type # "list" THEN MkError("TypeError", "")
    ELSE IF "code" \in response.keys /\ response.code = "not_authenticated"
         THEN MkError("PracticumRequestError", NotAuthenticatedText)
    ELSE IF "code" \in response.keys /\ response.code = "UnknownError"
         THEN MkError("PracticumRequestError", UnknownErrorText)
    ELSE NoError

\* parse_status with the two substitutions of its f-string exchanged.
parse_status_swapped(homework) ==
    IF "status" \notin DOMAIN homework
        THEN [error |-> MkError("MalformedPracticumReply", ""), value |-> ""]
    ELSE IF "homework_name" \notin DOMAIN homework
        THEN [error |-> MkError("MalformedPracticumReply", ""), value |-> ""]
    ELSE IF homework["status"] \notin DOMAIN HOMEWORK_VERDICTS
        THEN [error |-> MkError("ValueError", ""), value |-> ""]
    ELSE [error |-> NoError,
          value |-> StatusChangedText(HOMEWORK_VERDICTS[homework["status"]],
                                      homework["homework_name"])]

\* parse_status with the lookup of the status before the check of line 123.
parse_status_lookup_first(homework) ==
    IF "status" \notin DOMAIN homework
        THEN [error |-> MkError("MalformedPracticumReply", ""), value |-> ""]
    ELSE IF homework["status"] \notin DOMAIN HOMEWORK_VERDICTS
        THEN [error |-> MkError("ValueError", ""), value |-> ""]
    ELSE IF "homework_name" \notin DOMAIN homework
        THEN [error |-> MkError("MalformedPracticumReply", ""), value |-> ""]
    ELSE [error |-> NoError,
          value |-> StatusChangedText(homework["homework_name"],
                                      HOMEWORK_VERDICTS[homework["status"]])]

\* parse_status without the check of line 128: an unknown status gets the
\* text of HOMEWORK_VERDICTS.get, None.
parse_status_unknown_passes(homework) ==
    IF "status" \notin DOMAIN homework
        THEN [error |-> MkError("MalformedPracticumReply", ""), value |-> ""]
    ELSE IF "homework_name" \notin DOMAIN homework
        THEN [error |-> MkError("MalformedPracticumReply", ""), value |-> ""]
    ELSE [error |-> NoError,
          value |-> StatusChangedText(
                      homework["homework_name"],
                      IF homework["status"] \in DOMAIN HOMEWORK_VERDICTS
                      THEN HOMEWORK_VERDICTS[homework["status"]]
                      ELSE "None")]

\* parse_status: the exception it raises, or the text it returns.
parse_status(homework) ==
    IF "status" \notin DOMAIN homework
        THEN [error |-> MkError("MalformedPracticumReply", ""), value |-> ""]
    ELSE IF "homework_name" \notin DOMAIN homework
        THEN [error |-> MkError("MalformedPracticumReply", ""), value |-> ""]
    ELSE IF homework["status"] \notin DOMAIN HOMEWORK_VERDICTS
        THEN [error |-> MkError("ValueError", ""), value |-> ""]
    ELSE [error |-> NoError,
          value |-> StatusChangedText(homework["homework_name"],
                                      HOMEWORK_VERDICTS[homework["status"]])]

\* A send_message call in progress: its text, who called it (main's loop or
\* the filter) and, for the filter, where the record it forwards was logged.
Frame(msg, caller, record_from) ==
    [msg |-> msg, caller |-> caller, record_from |-> record_from]

\* The calls in progress return, innermost first; each return into
\* TelegramFilter.filter runs `self.last_message = record.msg`.
RECURSIVE Unwind(_, _)
Unwind(stk, last) ==
    IF stk = <<>> THEN last
    ELSE LET top == stk[Len(stk)]
         IN Unwind(SubSeq(stk, 1, Len(stk) - 1),
                   IF top.caller = "filter" THEN top.msg ELSE last)

\* Places of main and get_api_answer from which a delivery is under way.
CallSites == {"get_api_answer:95", "main:156", "main:159"}

\* -------------------------------------------------------- control transfer
\* ReturnTo with `continue` at the end of the except clause: no sleep.
ReturnToNoSleep(site) ==
    CASE site = "get_api_answer:95" ->
            /\ pc' = "except"
            /\ error' = MkError("UnreachablePracticumEndpoint", "")
            /\ UNCHANGED <<idx, cycle_result>>
      [] site = "main:156" ->
            /\ pc' = "loop"
            /\ idx' = idx + 1
            /\ UNCHANGED <<error, cycle_result>>
      [] site = "main:159" ->
            /\ pc' = "fetch"
            /\ cycle_result' = "failure"
            /\ UNCHANGED <<error, idx>>

\* The call made at `site` returns normally.
ReturnTo(site) ==
    CASE site = "get_api_answer:95" ->
            /\ pc' = "except"
            /\ error' = MkError("UnreachablePracticumEndpoint", "")
            /\ UNCHANGED <<idx, cycle_result>>
      [] site = "main:156" ->
            /\ pc' = "loop"
            /\ idx' = idx + 1
            /\ UNCHANGED <<error, cycle_result>>
      [] site = "main:159" ->
            /\ pc' = "sleep"
            /\ cycle_result' = "failure"
            /\ UNCHANGED <<error, idx>>

\* The call made at `site` raises e: inside the try block main catches it,
\* inside the except clause nothing does and the process dies.
RaiseTo(site, e) ==
    CASE site \in {"get_api_answer:95", "main:156"} ->
            /\ pc' = "except"
            /\ error' = e
            /\ UNCHANGED <<idx, cycle_result>>
      [] site = "main:159" ->
            /\ pc' = "crashed"
            /\ error' = e
            /\ cycle_result' = "crashed"
            /\ UNCHANGED idx

\* logging.error(msg) called at `site` by `record_from`: the record passes
\* through TelegramFilter.filter, which may call send_message.
logging_error(msg, record_from, site) ==
    /\ errlog' = Append(errlog, [levelno |-> LOG_ERROR, msg |-> msg,
                                 record_from |-> record_from])
    /\ IF filter_sends(LOG_ERROR, msg, last_message)
       THEN IF Len(stack) < MaxNest
            THEN /\ stack' = Append(stack, Frame(msg, "filter", record_from))
                 /\ pc' = site
                 /\ UNCHANGED <<last_message, error, idx, cycle_result>>
            ELSE /\ stack' = <<>>
                 /\ UNCHANGED last_message
                 /\ \E text \in RecursionErrorTexts :
                        RaiseTo(site, MkError("RecursionError", text))
       ELSE /\ stack' = <<>>
            /\ last_message' = Unwind(stack, last_message)
            /\ ReturnTo(site)

\* ----------------------------------------------------------------- actions
Init ==
    /\ env \in Environments
    /\ pc = "start"
    /\ now = RETRY_PERIOD
    /\ failures = 0
    /\ last_successful_check = 0
    /\ last_message = ""
    /\ outcome = NoOutcome
    /\ idx = 0
    /\ stack = <<>>
    /\ error = NoError
    /\ attempts = <<>>
    /\ errlog = <<>>
    /\ cycle_start_check = 0
    /\ cycle_result = "none"
    /\ fetched = FALSE
    /\ slept = FALSE
    /\ cycles = 0
    /\ prev_failure = NoFailure
    /\ prev_err_sent = {}
    /\ last_err_attempt = ""
    /\ prev_main_sent = {}
    /\ unseen = {}

\* main, lines 137-142: configuration missing, log critical and exit.
Exit ==
    /\ pc = "start"
    /\ ~check_tokens(env)
    /\ errlog' = Append(errlog, [levelno |-> LOG_CRITICAL, msg |-> MissingConfigurationText,
                                 record_from |-> "main"])
    /\ pc' = "exited"
    /\ UNCHANGED <<env, prev_main_sent, unseen, now, last_successful_check, last_message, outcome, idx,
                   stack, error, attempts, cycle_start_check, cycle_result,
                   fetched, slept, failures, cycles, prev_failure, prev_err_sent,
                   last_err_attempt>>

\* main, lines 144-148: install the filter, initialise the checkpoint.
Start ==
    /\ pc = "start"
    /\ check_tokens(env)
    /\ last_successful_check' = now - RETRY_PERIOD
    /\ pc' = "fetch"
    /\ UNCHANGED <<env, prev_main_sent, unseen, now, last_message, outcome, idx, stack, error,
                   attempts, errlog, cycle_start_check, cycle_result, fetched,
                   slept, failures, cycles, prev_failure, prev_err_sent, last_err_attempt>>

\* get_api_answer, lines 69-101, called at main line 151; the request takes
\* d seconds and ends as o.
Fetch(o, d) ==
    /\ pc = "fetch"
    /\ outcome' = o
    /\ now' = now + d
    /\ fetched' = TRUE
    /\ slept' = FALSE
    /\ cycle_start_check' = last_successful_check
    /\ IF o.kind = "RequestException"
       THEN /\ RaiseTo("get_api_answer:95",
                       MkError("PracticumRequestError", TransportErrorText))
            /\ UNCHANGED <<stack, last_message, errlog>>
       ELSE IF o.kind = "Exception"
       THEN /\ RaiseTo("get_api_answer:95",
                       MkError("PracticumRequestError", OtherFetchErrorText))
            /\ UNCHANGED <<stack, last_message, errlog>>
       ELSE IF o.status_code # HTTP_OK
       THEN logging_error(EndpointUnavailableText(o.status_code, ReplyHeaders,
                                                  ReplyText),
                          "get_api_answer", "get_api_answer:95")
       ELSE IF ~o.json_ok
       THEN /\ RaiseTo("get_api_answer:95",
                       MkError("JSONDecodeError", JsonErrorText))
            /\ UNCHANGED <<stack, last_message, errlog>>
       ELSE /\ pc' = "validate"
            /\ UNCHANGED <<stack, last_message, errlog, error, idx, cycle_result>>
    /\ unseen' = IF o.kind = "reply" /\ o.status_code = HTTP_OK /\ o.json_ok
                 THEN {s \in unseen : s < last_successful_check}
                 ELSE unseen
    /\ UNCHANGED <<env, prev_main_sent, last_successful_check, attempts,
                   failures, cycles, prev_failure, prev_err_sent,
                   last_err_attempt>>

\* main, lines 152-153: check_response, then the list of homeworks.
Validate ==
    /\ pc = "validate"
    /\ LET e == check_response(outcome.body)
       IN IF e = NoError
          THEN pc' = "loop" /\ idx' = 1 /\ UNCHANGED error
          ELSE pc' = "except" /\ error' = e /\ UNCHANGED idx
    /\ UNCHANGED <<env, prev_main_sent, unseen, now, last_successful_check, last_message, outcome,
                   stack, attempts, errlog, cycle_start_check, cycle_result,
                   fetched, slept, failures, cycles, prev_failure, prev_err_sent,
                   last_err_attempt>>

\* main, lines 154-156: parse_status of the next homework, then the call of
\* send_message for its text.
Interpret ==
    /\ pc = "loop"
    /\ idx <= Len(outcome.body.homeworks)
    /\ LET r == parse_status(outcome.body.homeworks[idx])
       IN IF r.error = NoError
          THEN /\ stack' = <<Frame(r.value, "main", "none")>>
               /\ pc' = "main:156"
               /\ UNCHANGED error
          ELSE /\ pc' = "except"
               /\ error' = r.error
               /\ UNCHANGED stack
    /\ UNCHANGED <<env, prev_main_sent, unseen, now, last_successful_check, last_message, outcome, idx,
                   attempts, errlog, cycle_start_check, cycle_result, fetched,
                   slept, failures, cycles, prev_failure, prev_err_sent, last_err_attempt>>

\* Advance with the expression of line 147 in place of that of line 161.
AdvanceStale ==
    /\ pc = "loop"
    /\ idx > Len(outcome.body.homeworks)
    /\ last_successful_check' = now - RETRY_PERIOD
    /\ cycle_result' = "success"
    /\ pc' = "sleep"
    /\ UNCHANGED <<env, prev_main_sent, unseen, now, last_message, outcome, idx, stack, error,
                   attempts, errlog, cycle_start_check, fetched, slept,
                   failures, cycles, prev_failure, prev_err_sent,
                   last_err_attempt>>

\* main, lines 160-161: the loop ended without an exception.
Advance ==
    /\ pc = "loop"
    /\ idx > Len(outcome.body.homeworks)
    /\ last_successful_check' = now
    /\ cycle_result' = "success"
    /\ pc' = "sleep"
    /\ UNCHANGED <<env, prev_main_sent, unseen, now, last_message, outcome, idx, stack, error,
                   attempts, errlog, cycle_start_check, fetched, slept, failures, cycles,
                   prev_failure, prev_err_sent, last_err_attempt>>

\* HandleException with the checkpoint advanced in the except clause too.
HandleExceptionAdvancing ==
    /\ pc = "except"
    /\ logging_error(CycleFailureText(error.str), "main", "main:159")
    /\ last_successful_check' = now
    /\ UNCHANGED <<env, prev_main_sent, unseen, now, outcome, attempts, cycle_start_check, fetched,
                   slept, failures, cycles, prev_failure, prev_err_sent,
                   last_err_attempt>>

\* main, lines 157-159: the exception of the cycle is logged as an error.
HandleException ==
    /\ pc = "except"
    /\ logging_error(CycleFailureText(error.str), "main", "main:159")
    /\ UNCHANGED <<env, prev_main_sent, unseen, now, last_successful_check, outcome, attempts,
                   cycle_start_check, fetched, slept, failures, cycles, prev_failure,
                   prev_err_sent, last_err_attempt>>

\* send_message, lines 58-66: the innermost call in progress reaches
\* bot.send_message, which succeeds (ok) or raises TelegramError.
Deliver(ok) ==
    /\ pc \in CallSites
    /\ stack # <<>>
    /\ ok \/ failures < MaxFailures
    /\ failures' = IF ok THEN failures ELSE failures + 1
    /\ LET top == stack[Len(stack)]
       IN /\ attempts' = Append(attempts, [text |-> top.msg,
                                           caller |-> top.caller,
                                           record_from |-> top.record_from,
                                           depth |-> Len(stack),
                                           ok |-> ok])
          /\ last_err_attempt' = IF top.caller = "filter" THEN top.msg
                                 ELSE last_err_attempt
          /\ IF ok
             THEN /\ stack' = <<>>
                  /\ last_message' = Unwind(stack, last_message)
                  /\ ReturnTo(pc)
                  /\ UNCHANGED errlog
             ELSE logging_error(DeliveryFailureText(top.msg), "send_message", pc)
    /\ UNCHANGED <<env, prev_main_sent, unseen, now, last_successful_check, outcome, cycle_start_check,
                   fetched, slept, cycles, prev_failure, prev_err_sent>>

\* Texts main's loop handed to the bot in a list of attempts.
MainSent(as) == {as[i].text : i \in {j \in DOMAIN as : as[j].caller = "main"}}

\* Error texts the filter handed to the bot in a list of attempts.
ErrSent(as) == {as[i].text : i \in {j \in DOMAIN as : as[j].caller = "filter"}}

\* main, line 163: time.sleep(RETRY_PERIOD), then the next iteration.
Sleep ==
    /\ pc = "sleep"
    /\ cycles < MaxCycles
    /\ now' = now + RETRY_PERIOD
    /\ slept' = TRUE
    /\ cycles' = cycles + 1
    /\ pc' = "fetch"
    /\ prev_failure' = IF cycle_result = "failure"
                       THEN [outcome |-> outcome, error |-> error]
                       ELSE NoFailure
    /\ prev_err_sent' = ErrSent(attempts)
    /\ prev_main_sent' = IF cycle_result = "failure" THEN MainSent(attempts)
                         ELSE {}
    /\ outcome' = NoOutcome
    /\ idx' = 0
    /\ error' = NoError
    /\ attempts' = <<>>
    /\ errlog' = <<>>
    /\ cycle_result' = "none"
    /\ UNCHANGED <<env, unseen, last_successful_check, last_message, stack,
                   cycle_start_check, fetched, failures, last_err_attempt>>

Next ==
    \/ Exit
    \/ Start
    \/ \E o \in FetchOutcomes, d \in 0..MaxLatency : Fetch(o, d)
    \/ Validate
    \/ Interpret
    \/ Advance
    \/ HandleException
    \/ \E ok \in BOOLEAN : Deliver(ok)
    \/ Sleep

Spec == Init /\ [][Next]_vars

\* ------------------------------------------------- one cycle, every reply
\* The state in which the first get_api_answer has returned body r.
InitCycle ==
    /\ env = [x \in env_list |-> "secret"]
    /\ pc = "validate"
    /\ now = RETRY_PERIOD
    /\ failures = 0
    /\ last_successful_check = now - RETRY_PERIOD
    /\ last_message = ""
    /\ outcome \in {MkOutcome("reply", HTTP_OK, TRUE, r) : r \in AllResponses}
    /\ idx = 0
    /\ stack = <<>>
    /\ error = NoError
    /\ attempts = <<>>
    /\ errlog = <<>>
    /\ cycle_start_check = now - RETRY_PERIOD
    /\ cycle_result = "none"
    /\ fetched = TRUE
    /\ slept = FALSE
    /\ cycles = 0
    /\ prev_failure = NoFailure
    /\ prev_err_sent = {}
    /\ last_err_attempt = ""
    /\ prev_main_sent = {}
    /\ unseen = {}

NextCycle ==
    \/ Validate
    \/ Interpret
    \/ Advance
    \/ HandleException
    \/ \E ok \in BOOLEAN : Deliver(ok)

SpecCycle == InitCycle /\ [][NextCycle]_vars

\* ------------------------------------- the clock and the server's changes
\* The replies the poller is run against while the clock is followed.
ClockOutcomes ==
    {MkOutcome("RequestException", 0, FALSE, NoResponse),
     MkOutcome("reply", HTTP_OK, TRUE, HomeworksResponse(<<>>)),
     MkOutcome("reply", HTTP_OK, TRUE,
               HomeworksResponse(<<Homework("approved", "hw1")>>))}

\* A second passes while main works on the reply it fetched.
Tick ==
    /\ pc \in {"validate", "loop"}
    /\ now - RETRY_PERIOD * (cycles + 1) < MaxLatency
    /\ now' = now + 1
    /\ UNCHANGED <<env, pc, last_successful_check, last_message, outcome, idx,
                   stack, error, attempts, errlog, cycle_start_check,
                   cycle_result, fetched, slept, failures, cycles,
                   prev_failure, prev_err_sent, last_err_attempt,
                   prev_main_sent, unseen>>

\* A review status changes at the server, stamped with the current second.
StatusChange ==
    /\ pc \in {"fetch", "validate", "loop", "sleep"}
    /\ now \notin unseen
    /\ Cardinality(unseen) < MaxChanges
    /\ unseen' = unseen \cup {now}
    /\ UNCHANGED <<env, pc, now, last_successful_check, last_message, outcome,
                   idx, stack, error, attempts, errlog, cycle_start_check,
                   cycle_result, fetched, slept, failures, cycles,
                   prev_failure, prev_err_sent, last_err_attempt,
                   prev_main_sent>>

NextClock ==
    \/ Exit
    \/ Start
    \/ \E o \in ClockOutcomes : Fetch(o, 0)
    \/ Validate
    \/ Interpret
    \/ Advance
    \/ HandleException
    \/ Deliver(TRUE)
    \/ Sleep
    \/ Tick
    \/ StatusChange

SpecClock == Init /\ [][NextClock]_vars

\* ------------------------------------------------------------------ claims
\* The record main logs at line 159 for the exception it caught.
CycleErrorRecord ==
    [levelno |-> LOG_ERROR, msg |-> CycleFailureText(error.str),
     record_from |-> "main"]

InLog(record) == \E i \in DOMAIN errlog : errlog[i] = record

AllDelivered == \A i \in DOMAIN attempts : attempts[i].ok

\* C1: when a cycle fails exactly as the cycle before it failed, no error
\* text the filter sent to the bot in the earlier cycle is sent again.
C1_RepeatedFailureSentOnce ==
    (pc = "sleep" /\ cycle_result = "failure"
        /\ prev_failure = [outcome |-> outcome, error |-> error])
    => ErrSent(attempts) \cap prev_err_sent = {}

\* C2: the record send_message logs when a delivery fails is never forwarded
\* by the filter into send_message.
C2_SelfNotificationGuard ==
    \A i \in DOMAIN stack :
        ~(stack[i].caller = "filter" /\ stack[i].record_from = "send_message")

\* C3: once the loop is entered the process never ends, whatever the fetches
\* and the deliveries do.
C3_NoTerminalState == pc # "crashed"

\* C4: an exception raised in a cycle is caught by main, logged there as an
\* error, and leaves the checkpoint as it was when the cycle began.
C4_FailedCycleKeepsCheckpoint ==
    /\ error # NoError => last_successful_check = cycle_start_check
    /\ cycle_result = "failure" =>
          /\ error # NoError
          /\ InLog(CycleErrorRecord)
          /\ last_successful_check = cycle_start_check
          /\ pc = "sleep"

C4_Witness ==
    /\ pc = "sleep"
    /\ cycle_result = "failure"
    /\ outcome.body = MkResponse("dict", {"code"}, "NoneType", <<>>,
                                 "not_authenticated")
    /\ InLog(CycleErrorRecord)
    /\ cycles >= 1
    /\ last_successful_check = cycle_start_check
    /\ last_successful_check < now - RETRY_PERIOD

\* C5: the checkpoint starts at now - RETRY_PERIOD, becomes the current time
\* at the end of every successful cycle, and never decreases.
C5_CheckpointMonotone ==
    [][/\ (pc = "start" /\ pc' = "fetch")
            => last_successful_check' = now - RETRY_PERIOD
       /\ (cycle_result # "success" /\ cycle_result' = "success")
            => last_successful_check' = now'
       /\ pc # "start" => last_successful_check' >= last_successful_check]_vars

C5_Witness ==
    /\ pc = "sleep"
    /\ cycle_result = "success"
    /\ prev_failure # NoFailure
    /\ last_successful_check = now
    /\ last_successful_check > cycle_start_check
    /\ cycle_start_check > 0

\* C6: a cycle that ends, by success or by a caught exception, goes to the
\* sleep; the sleep lasts RETRY_PERIOD and leads to the next fetch; no fetch
\* but the first is issued without a sleep since the fetch before it.
C6_SleepBetweenFetches ==
    [][/\ (cycle_result = "none" /\ cycle_result' \in {"success", "failure"})
            => pc' = "sleep"
       /\ (pc = "sleep" /\ pc' # "sleep")
            => (pc' = "fetch" /\ now' = now + RETRY_PERIOD /\ slept')
       /\ (pc = "fetch" /\ pc' # "fetch") => (slept \/ ~fetched)
       /\ (pc # "fetch" /\ pc' = "fetch") => pc \in {"start", "sleep"}]_vars

C6_Witness ==
    /\ cycles >= 1
    /\ prev_failure # NoFailure
    /\ outcome # NoOutcome
    /\ ~slept

\* C7: with a required variable unset or empty, main logs one critical
\* record and exits; nothing is fetched and nothing is delivered.
C7_ConfigurationGate ==
    (\E x \in {"PRACTICUM_TOKEN", "TELEGRAM_TOKEN", "TELEGRAM_CHAT_ID"} :
        x \notin DOMAIN env \/ env[x] = "") =>
        /\ pc \in {"start", "exited"}
        /\ ~fetched
        /\ attempts = <<>>
        /\ stack = <<>>
        /\ cycles = 0
        /\ pc = "exited" =>
              errlog = <<[levelno |-> LOG_CRITICAL,
                          msg |-> MissingConfigurationText,
                          record_from |-> "main"]>>
        /\ pc = "start" => errlog = <<>>

C7_Witness ==
    /\ pc = "exited"
    /\ "PRACTICUM_TOKEN" \in DOMAIN env /\ env["PRACTICUM_TOKEN"] = "secret"
    /\ "TELEGRAM_TOKEN" \in DOMAIN env /\ env["TELEGRAM_TOKEN"] = ""
    /\ "TELEGRAM_CHAT_ID" \notin DOMAIN env
    /\ Len(errlog) = 1
    /\ ~fetched

\* C8: a reply whose code is not_authenticated or UnknownError makes
\* check_response raise PracticumRequestError with the message of that code.
C8_ApiReportedErrors ==
    (/\ outcome.kind = "reply" /\ outcome.json_ok
     /\ outcome.body.type = "dict"
     /\ "code" \in outcome.body.keys
     /\ outcome.body.code \in {"not_authenticated", "UnknownError"}
     /\ pc \in {"loop", "except"})
    => /\ pc = "except"
       /\ error = MkError("PracticumRequestError",
                          IF outcome.body.code = "not_authenticated"
                          THEN NotAuthenticatedText ELSE UnknownErrorText)

\* The cycle that fetched {"homeworks": [{"homework_name": "hw1",
\* "status": "approved"}]} has ended and every delivery of it succeeded.
C9_Scenario ==
    /\ pc = "sleep"
    /\ outcome.kind = "reply" /\ outcome.json_ok
    /\ outcome.body = HomeworksResponse(<<Homework("approved", "hw1")>>)
    /\ AllDelivered

C9_Outcome(text) ==
    /\ Len(attempts) = 1
    /\ attempts[1].text = text
    /\ attempts[1].caller = "main"
    /\ cycle_result = "success"
    /\ last_successful_check = now
    /\ last_successful_check > cycle_start_check

\* C9 as claimed: the one notification of the scenario reads
\* 'Changed review status of work "hw1". Работа проверена: ревьюеру всё понравилось.'
C9_ClaimedNotification ==
    C9_Scenario =>
        C9_Outcome("Changed review status of work \"hw1\". \\u0420\\u0430\\u0431\\u043e\\u0442\\u0430 \\u043f\\u0440\\u043e\\u0432\\u0435\\u0440\\u0435\\u043d\\u0430: \\u0440\\u0435\\u0432\\u044c\\u044e\\u0435\\u0440\\u0443 \\u0432\\u0441\\u0451 \\u043f\\u043e\\u043d\\u0440\\u0430\\u0432\\u0438\\u043b\\u043e\\u0441\\u044c.")

\* C9 amended: the cycle sends exactly one notification, it reads
\* 'Изменился статус проверки работы "hw1". Работа проверена: ревьюеру всё понравилось. Ура!',
\* and the checkpoint advances.
C9_ApprovedNotification ==
    C9_Scenario =>
        C9_Outcome("\\u0418\\u0437\\u043c\\u0435\\u043d\\u0438\\u043b\\u0441\\u044f \\u0441\\u0442\\u0430\\u0442\\u0443\\u0441 \\u043f\\u0440\\u043e\\u0432\\u0435\\u0440\\u043a\\u0438 \\u0440\\u0430\\u0431\\u043e\\u0442\\u044b \"hw1\". \\u0420\\u0430\\u0431\\u043e\\u0442\\u0430 \\u043f\\u0440\\u043e\\u0432\\u0435\\u0440\\u0435\\u043d\\u0430: \\u0440\\u0435\\u0432\\u044c\\u044e\\u0435\\u0440\\u0443 \\u0432\\u0441\\u0451 \\u043f\\u043e\\u043d\\u0440\\u0430\\u0432\\u0438\\u043b\\u043e\\u0441\\u044c. \\u0423\\u0440\\u0430!")

C9_Witness ==
    /\ C9_Scenario
    /\ Len(attempts) = 1
    /\ cycle_result = "success"
    /\ cycles >= 1

\* C10: when the filter has returned and no delivery is in progress,
\* last_message is the text the filter sent to the bot most recently.
C10_LastMessageIsLastSent ==
    (/\ stack = <<>>
     /\ pc \in {"fetch", "validate", "loop", "except", "sleep"}
     /\ error.type # "RecursionError")
    => last_message = last_err_attempt

\* The homework record main's loop is at, and the records of the reply.
CurrentHomeworks == outcome.body.homeworks
AtRecord == pc = "loop" /\ idx <= Len(CurrentHomeworks)

\* The texts main's loop handed to the bot, in order.
MainTexts(as) ==
    LET mine == SelectSeq(as, LAMBDA a : a.caller = "main")
    IN [i \in DOMAIN mine |-> mine[i].text]

\* The sentence the verdict table prescribes, written out.
C11_Sentence(status, name) ==
    "\\u0418\\u0437\\u043c\\u0435\\u043d\\u0438\\u043b\\u0441\\u044f \\u0441\\u0442\\u0430\\u0442\\u0443\\u0441 \\u043f\\u0440\\u043e\\u0432\\u0435\\u0440\\u043a\\u0438 \\u0440\\u0430\\u0431\\u043e\\u0442\\u044b \"" \o name \o "\". "
    \o (CASE status = "approved" ->
               "\\u0420\\u0430\\u0431\\u043e\\u0442\\u0430 \\u043f\\u0440\\u043e\\u0432\\u0435\\u0440\\u0435\\u043d\\u0430: \\u0440\\u0435\\u0432\\u044c\\u044e\\u0435\\u0440\\u0443 \\u0432\\u0441\\u0451 \\u043f\\u043e\\u043d\\u0440\\u0430\\u0432\\u0438\\u043b\\u043e\\u0441\\u044c. \\u0423\\u0440\\u0430!"
          [] status = "reviewing" ->
               "\\u0420\\u0430\\u0431\\u043e\\u0442\\u0430 \\u0432\\u0437\\u044f\\u0442\\u0430 \\u043d\\u0430 \\u043f\\u0440\\u043e\\u0432\\u0435\\u0440\\u043a\\u0443 \\u0440\\u0435\\u0432\\u044c\\u044e\\u0435\\u0440\\u043e\\u043c."
          [] status = "rejected" ->
               "\\u0420\\u0430\\u0431\\u043e\\u0442\\u0430 \\u043f\\u0440\\u043e\\u0432\\u0435\\u0440\\u0435\\u043d\\u0430: \\u0443 \\u0440\\u0435\\u0432\\u044c\\u044e\\u0435\\u0440\\u0430 \\u0435\\u0441\\u0442\\u044c \\u0437\\u0430\\u043c\\u0435\\u0447\\u0430\\u043d\\u0438\\u044f.")

\* The sentences of the first n records of hs.
SentencesOf(hs, n) ==
    [j \in 1..n |-> C11_Sentence(hs[j]["status"], hs[j]["homework_name"])]

\* C11: for a record holding both keys whose status is a key of the verdict
\* table, parse_status raises nothing and returns the fixed prefix with the
\* homework name followed by the verdict text of that status.
C11_ParseStatusTotal ==
    [][(/\ AtRecord
        /\ DOMAIN CurrentHomeworks[idx] = {"status", "homework_name"}
        /\ CurrentHomeworks[idx]["status"] \in {"approved", "reviewing", "rejected"})
       => /\ pc' = "main:156"
          /\ error' = NoError
          /\ stack' = <<[msg |-> C11_Sentence(CurrentHomeworks[idx]["status"],
                                              CurrentHomeworks[idx]["homework_name"]),
                         caller |-> "main", record_from |-> "none"]>>]_vars

C11_Witness ==
    /\ pc = "main:156"
    /\ idx = 2
    /\ CurrentHomeworks[1] = Homework("reviewing", "hw2")
    /\ CurrentHomeworks[2] = Homework("rejected", "hw1")
    /\ stack = <<[msg |-> C11_Sentence("rejected", "hw1"), caller |-> "main",
                  record_from |-> "none"]>>
    /\ attempts # <<>> /\ attempts[1].text = C11_Sentence("reviewing", "hw2")

\* C12: for a record lacking the status key or the homework_name key,
\* parse_status raises MalformedPracticumReply, nothing is sent for the
\* record, and main sends no homework text in the rest of the cycle.
C12_MalformedRecord ==
    [][/\ (AtRecord /\ DOMAIN CurrentHomeworks[idx] # {"status", "homework_name"})
          => /\ pc' = "except"
             /\ error' = [type |-> "MalformedPracticumReply", str |-> ""]
             /\ stack' = <<>>
             /\ attempts' = attempts
       /\ error.type = "MalformedPracticumReply"
          => /\ MainTexts(attempts') = MainTexts(attempts)
             /\ pc' \notin {"loop", "main:156"}]_vars

C12_Witness ==
    /\ pc = "sleep"
    /\ cycle_result = "failure"
    /\ error.type = "MalformedPracticumReply"
    /\ idx = 2
    /\ CurrentHomeworks[2] = MkHomework({"status"}, "unknown", "")
    /\ Len(MainTexts(attempts)) = 1

\* The reply has an empty list of homeworks and no error code.
C13_EmptyReply ==
    /\ outcome.kind = "reply" /\ outcome.json_ok
    /\ outcome.body.type = "dict"
    /\ outcome.body.homeworks_type = "list"
    /\ outcome.body.homeworks = <<>>
    /\ ~("code" \in outcome.body.keys
         /\ outcome.body.code \in {"not_authenticated", "UnknownError"})

\* C13: for a reply with an empty list of homeworks and no error code,
\* check_response returns, nothing is sent, no error record is logged and
\* the cycle ends by the success path.
C13_EmptyResult ==
    C13_EmptyReply =>
        /\ pc \in {"validate", "loop", "sleep"}
        /\ error = NoError
        /\ attempts = <<>>
        /\ errlog = <<>>
        /\ stack = <<>>
        /\ pc = "sleep" => (cycle_result = "success" /\ last_successful_check = now)

C13_Witness ==
    /\ C13_EmptyReply
    /\ pc = "sleep"
    /\ cycle_result = "success"
    /\ "code" \in outcome.body.keys

\* The reply is not a mapping, or its homeworks value is not a list.
C14_BadShape ==
    /\ outcome.kind = "reply" /\ outcome.json_ok
    /\ outcome.body.type # "dict" \/ outcome.body.homeworks_type # "list"

\* C14: for a reply that is not a mapping or whose homeworks value is not a
\* list, check_response raises TypeError and no record is interpreted or
\* sent in the cycle.
C14_ShapeValidation ==
    C14_BadShape =>
        /\ pc \in {"validate", "except", "main:159", "sleep", "crashed"}
        /\ pc = "except" => error = [type |-> "TypeError", str |-> ""]
        /\ idx = 0
        /\ MainTexts(attempts) = <<>>
        /\ cycle_result # "success"

C14_Witness ==
    /\ C14_BadShape
    /\ outcome.body.type = "dict"
    /\ outcome.body.homeworks_type = "str"
    /\ pc = "sleep"
    /\ cycle_result = "failure"
    /\ error.type = "TypeError"

\* What C15 says of the step at which main's loop is at a record.
C15_Aborts ==
    /\ pc' = "except"
    /\ error' = [type |-> "ValueError", str |-> ""]
    /\ stack' = <<>>
    /\ attempts' = attempts
    /\ MainTexts(attempts) = SentencesOf(CurrentHomeworks, idx - 1)

\* C15 as claimed: a record whose status is outside the verdict table makes
\* parse_status raise ValueError.
C15_UnknownStatusClaimed ==
    [][(/\ AtRecord
        /\ "status" \in DOMAIN CurrentHomeworks[idx]
        /\ CurrentHomeworks[idx]["status"] \notin {"approved", "reviewing", "rejected"})
       => C15_Aborts]_vars

\* C15 amended: when main's loop reaches a record that holds both keys and
\* whose status is outside the verdict table, parse_status raises ValueError,
\* exactly the records before it have been sent, in order, no homework text
\* is sent in the rest of the cycle, and the cycle does not end by the
\* success path.
C15_UnknownStatusAborts ==
    [][/\ (/\ AtRecord
           /\ DOMAIN CurrentHomeworks[idx] = {"status", "homework_name"}
           /\ CurrentHomeworks[idx]["status"] \notin {"approved", "reviewing", "rejected"})
          => C15_Aborts
       /\ error.type = "ValueError"
          => /\ MainTexts(attempts') = MainTexts(attempts)
             /\ pc' \in {"main:159", "sleep", "crashed"}
             /\ cycle_result' # "success"]_vars

C15_Witness ==
    /\ pc = "sleep"
    /\ cycle_result = "failure"
    /\ error.type = "ValueError"
    /\ idx = 2
    /\ CurrentHomeworks[2] = Homework("unknown", "hw2")
    /\ MainTexts(attempts) = <<C11_Sentence("approved", "hw1")>>

\* The reply passed check_response and every record of it holds both keys
\* and a status of the verdict table.
C16_WellFormedReply ==
    /\ outcome.kind = "reply" /\ outcome.json_ok
    /\ outcome.body.type = "dict"
    /\ outcome.body.homeworks_type = "list"
    /\ ~("code" \in outcome.body.keys
         /\ outcome.body.code \in {"not_authenticated", "UnknownError"})
    /\ CurrentHomeworks # <<>>
    /\ \A j \in DOMAIN CurrentHomeworks :
          /\ DOMAIN CurrentHomeworks[j] = {"status", "homework_name"}
          /\ CurrentHomeworks[j]["status"] \in {"approved", "reviewing", "rejected"}

\* C16: in a cycle whose reply holds n well-formed records with known
\* statuses, main hands the bot the sentence of each record once, in the
\* order of the list, each right after it was interpreted and none before
\* validation; the cycle ends with exactly n such deliveries.
C16_NotificationOrder ==
    C16_WellFormedReply =>
        /\ pc = "validate" => attempts = <<>>
        /\ pc = "loop" =>
              MainTexts(attempts) = SentencesOf(CurrentHomeworks, idx - 1)
        /\ (pc = "main:156" /\ Len(stack) = 1) =>
              /\ MainTexts(attempts) = SentencesOf(CurrentHomeworks, idx - 1)
              /\ stack[1].msg = SentencesOf(CurrentHomeworks, idx)[idx]
        /\ pc \in {"except", "main:159", "sleep", "crashed"} =>
              MainTexts(attempts)
                  = SentencesOf(CurrentHomeworks, Len(CurrentHomeworks))

\* C17: validation, the loop over the homeworks, the delivery of a homework
\* text, the end of a successful cycle and the sleep leave last_message
\* unchanged.
C17_DedupStateFrame ==
    [][(pc \in {"validate", "loop", "main:156", "sleep"})
       => last_message' = last_message]_vars

\* Error records get_api_answer itself logged in this cycle.
OwnFetchRecords ==
    SelectSeq(errlog, LAMBDA r : r.record_from = "get_api_answer")

\* C18: get_api_answer queries from the current checkpoint; a transport
\* failure raises PracticumRequestError with no error record logged, a
\* status other than 200 logs one error record and then raises
\* UnreachablePracticumEndpoint, and only a 200 reply reaches validation.
C18_FetchClassification ==
    /\ (outcome # NoOutcome /\ cycle_result = "none")
          => cycle_start_check = last_successful_check
    /\ (outcome.kind \in {"RequestException", "Exception"} /\ pc = "except")
          => (error.type = "PracticumRequestError" /\ errlog = <<>>)
    /\ (outcome.kind = "reply" /\ outcome.status_code # 200 /\ pc = "except")
          => /\ error = [type |-> "UnreachablePracticumEndpoint", str |-> ""]
             /\ Len(OwnFetchRecords) = 1
    /\ pc \in {"validate", "loop", "main:156"}
          => (outcome.kind = "reply" /\ outcome.status_code = 200)

\* C19: every status change no fetch has returned yet is stamped at or
\* after the checkpoint, so that a later fetch returns it.
C19_NoLostUpdates ==
    pc \notin {"start", "exited"} =>
        \A s \in unseen : s >= last_successful_check

\* C20: a cycle that gets, for the same from_date, the reply of the failed
\* cycle before it sends none of the homework texts that cycle sent.
C20_AtMostOnce ==
    (/\ prev_failure # NoFailure
     /\ prev_failure.outcome = outcome
     /\ outcome.kind = "reply" /\ outcome.json_ok)
    => MainSent(attempts) \cap prev_main_sent = {}
====
